---- MODULE Spec2Model ----
(***************************************************************************)
(* A model of bode_plot() of bode.py: the frequency sweep that drives a    *)
(* waveform generator, arms a single-shot capture on the oscilloscope at   *)
(* every frequency and reads a validated peak-to-peak amplitude with a     *)
(* bounded retry; and of adsr_envelope() of adsr_sine.py, the sampled      *)
(* attack-decay-sustain-release envelope (specification EnvSpec).          *)
(*                                                                         *)
(* Units.  Voltages are integers in millivolt (vpp_input = 0.01 V = 10).   *)
(* Logarithms are fixed point, in thousandths (log10(10) = 1000).          *)
(* Frequencies of the plan are kept by their log10, as np.logspace builds  *)
(* them (a linspace of the exponent).  Durations and sample times of the   *)
(* envelope are integers in millisecond, its levels are in thousandths.    *)
(***************************************************************************)
EXTENDS Integers, Sequences, FiniteSets, TLC

VARIABLES
    pc,                       \* position in bode_plot
    error,                    \* the exception that left bode_plot ("none" while running)
    cfg,                      \* the "circuit and test equipment setup" values
    opened,                   \* instruments opened by rm.open_resource, in order
    closeCount,               \* how many times close() ran on each instrument
    rmClosed,                 \* rm.close() ran
    setupStep,                \* index of the next constant setup command
    sentCount,                \* commands and queries sent before the sweep loop
    freqs,                    \* the plan (log10 of each frequency, in thousandths)
    idx,                      \* position of freq in freqs (0 before the loop)
    horizontal_scale,         \* log10 of the requested timebase, thousandths
    actual_horizontal_scale,  \* the timebase read back (diagnostics)
    attempt,                  \* the retry loop's variable
    status,                   \* last TRIG:STAT? reply
    vpp_candidate,            \* the parsed reading of this attempt
    pkpkExc,                  \* the except branch ran for this attempt
    vpp,                      \* <<>> is None, <<v>> an amplitude
    vpp_measurements,
    db_measurements,
    pkpkQueries,              \* C1:PAVA? PKPK queries issued for this point
    arms,                     \* ARM commands written for this point
    readings,                 \* vpp_candidate of each attempt of this point
    plotted,                  \* the dB series was handed to the plot (line 434)
    interrupted,              \* a SIGINT was delivered to the process
    raisedAt,                 \* the position the exception was raised at
    lastIo,                   \* the last write or query and whether it returned
    polls,                    \* parity of the TRIG:STAT? replies received so far
    adsr,                     \* the ADSR argument of adsr_envelope
    sr,                       \* the sample rate argument of adsr_envelope
    counts,                   \* a_n, d_n, s_n, r_n
    env,                      \* the envelope, one level per sample
    t,                        \* the time vector
    envPc                     \* position in adsr_envelope ("idle": not called)

vars == <<pc, error, cfg, opened, closeCount, rmClosed, setupStep, sentCount, freqs,
          idx, horizontal_scale, actual_horizontal_scale, attempt, status,
          vpp_candidate, pkpkExc, vpp, vpp_measurements, db_measurements,
          pkpkQueries, arms, readings, plotted, interrupted, raisedAt, lastIo,
          polls, adsr, sr, counts, env, t, envPc>>

\* The variables of adsr_envelope; bode_plot never touches them.
envVars == <<adsr, sr, counts, env, t, envPc>>

-----------------------------------------------------------------------------
(* Bounds of the model *)

\* Largest plan the model sweeps (the script's own plan has 60 points).
MaxPoints == 3

-----------------------------------------------------------------------------
(* Program constants *)

max_attempts == 5
error_check_max_gain == 1000
LogScale == 1000

Instruments == <<"pwr", "wfg", "osc">>

\* The constant setup, lines 258-284: instrument and command, in program order.
SetupCommands ==
    << <<"wfg", "FUNC SIN">>, <<"wfg", "FREQ">>, <<"wfg", "VOLT">>,
       <<"wfg", "VOLT:OFFS 0">>, <<"wfg", "PHAS 0">>, <<"wfg", "OUTP ON">>,
       <<"pwr", "VOLT">>, <<"pwr", "CURR">>, <<"pwr", "OUTP ON">>,
       <<"osc", "C1:CPL A1M">>, <<"osc", "C1:VDIV">>, <<"osc", "C1:TRIG_LEVEL">> >>

-----------------------------------------------------------------------------
(* Inputs *)

StartChoices == {-10, 0, 10}
EndChoices == {10, 30, 50, 100, 1000, 10000, 100000}
PpdChoices == {-1, 0, 1, 10}
VppInputChoices == {0, 10}

\* A reply field: text that float() accepts (num) or not.
Num(v) == [num |-> TRUE, val |-> v]
Txt == [num |-> FALSE, val |-> 0]

\* Replies to C1:PAVA? PKPK, as the fields split(',') yields, the trailing
\* newline and 'V' taken off: 'C1:PAVA PKPK,<v>V', a reply without a comma,
\* and a reply whose second field is no number ('****').
PkpkValues == {0, 10, 100, 10000}
PkpkReplies == {<<Txt, Num(v)>> : v \in PkpkValues} \cup {<<Txt>>, <<Txt, Txt>>}

TrigReplies == {"Stop", "Ready"}

\* Replies to TDIV?, the newline and the trailing 'S' taken off: the timebase
\* as requested, one quantized to the next step (twice as long), and a reply
\* that is no number followed by 'S' (a reply with its command header, 'TDIV 1.00E-03S').
TdivReplies(hs) == {Num(hs), Num(hs + 301), Txt}

-----------------------------------------------------------------------------
(* Pure helpers *)

\* log10 in thousandths, for the values the model uses: m * 10^k, m in {1,2,3,5}.
RECURSIVE Log10Milli(_)
Log10Milli(x) ==
    IF x % 10 = 0 THEN LogScale + Log10Milli(x \div 10)
    ELSE CASE x = 1 -> 0
           [] x = 2 -> 301
           [] x = 3 -> 477
           [] x = 5 -> 699

\* int(): truncation toward zero.
IntTrunc(a, b) == IF a >= 0 THEN a \div b ELSE -((-a) \div b)

\* Lines 287-288 for a positive start_freq.
TotalPoints(c) ==
    IntTrunc((Log10Milli(c.end_freq) - Log10Milli(c.start_freq)) * c.points_per_decade,
             LogScale)

\* Line 291: np.logspace(log10(start), log10(end), n), by the exponents.
Logspace(lo, hi, n) ==
    [i \in 1..n |-> IF n = 1 THEN lo ELSE lo + ((i - 1) * (hi - lo)) \div (n - 1)]

\* What lines 287-291 do: the exception they raise, or "none".
PlanError(c) ==
    IF c.start_freq < 0 THEN "ValueError"                       \* int(nan)
    ELSE IF c.start_freq = 0
         THEN (IF c.points_per_decade = 0 THEN "ValueError"     \* inf * 0 = nan
               ELSE "OverflowError")                            \* int(+-inf)
    ELSE IF TotalPoints(c) < 0 THEN "ValueError"                \* logspace(num < 0)
    ELSE "none"

PlannedPoints(c) == IF PlanError(c) = "none" THEN TotalPoints(c) ELSE 0

\* Line 339: max(10/freq, 100e-6), by its log10.
HorizontalScale(freqLog) ==
    IF LogScale - freqLog > -4 * LogScale THEN LogScale - freqLog ELSE -4 * LogScale

\* float() of a reply field (lines 353 and 398).
FloatOk(field) == field.num

\* Lines 396-398: the exception raised while parsing the reply, or "none".
PkpkParseError(reply) ==
    IF Len(reply) < 2 THEN "IndexError"
    ELSE IF ~FloatOk(reply[2]) THEN "ValueError"
    ELSE "none"

\* Lines 394-401: the candidate the try/except leaves.
PkpkCandidate(reply) == IF PkpkParseError(reply) = "none" THEN reply[2].val ELSE 0

\* Line 403 with <= for <.
ValidVppInclusive(cand, c) == cand > 0 /\ cand <= error_check_max_gain * c.vpp_input

\* Line 403.
ValidVpp(cand, c) == cand > 0 /\ cand < error_check_max_gain * c.vpp_input

\* Line 417: 20 * np.log10(abs(vpp) / abs(vpp_input)), in thousandths of a dB.
Abs(x) == IF x < 0 THEN -x ELSE x
ToDb(v, ref) ==
    IF v = 0 THEN [neginf |-> TRUE, val |-> 0]
    ELSE [neginf |-> FALSE, val |-> 20 * (Log10Milli(Abs(v)) - Log10Milli(Abs(ref)))]

-----------------------------------------------------------------------------
(* The program *)

Configs ==
    {c \in [start_freq : StartChoices, end_freq : EndChoices,
            points_per_decade : PpdChoices, vpp_input : VppInputChoices] :
        PlannedPoints(c) <= MaxPoints}

\* adsr_envelope is not called: bode.py does not import adsr_sine.py.
EnvIdle ==
    /\ adsr = [attack |-> 0, decay |-> 0, sustain_level |-> 0, sustain |-> 0, release |-> 0]
    /\ sr = 0
    /\ counts = <<>>
    /\ env = <<>>
    /\ t = <<>>
    /\ envPc = "idle"

Init ==
    /\ pc = "open"
    /\ error = "none"
    /\ cfg \in Configs
    /\ EnvIdle
    /\ polls = 0
    /\ opened = <<>>
    /\ closeCount = [i \in {"pwr", "wfg", "osc"} |-> 0]
    /\ rmClosed = FALSE
    /\ setupStep = 1
    /\ sentCount = 0
    /\ freqs = <<>>
    /\ idx = 0
    /\ horizontal_scale = 0
    /\ actual_horizontal_scale = 0
    /\ attempt = 0
    /\ status = "none"
    /\ vpp_candidate = 0
    /\ pkpkExc = "none"
    /\ vpp = <<>>
    /\ vpp_measurements = <<>>
    /\ db_measurements = <<>>
    /\ pkpkQueries = 0
    /\ arms = 0
    /\ readings = <<>>
    /\ plotted = FALSE
    /\ interrupted = FALSE
    /\ raisedAt = "none"
    /\ lastIo = [instr |-> "none", cmd |-> "none", ok |-> TRUE]

\* An exception leaves bode_plot: nothing below the raising line runs.
Raise(e) == pc' = "raised" /\ error' = e /\ raisedAt' = pc

\* The program goes on at position p.
Goto(p) == pc' = p /\ error' = error /\ raisedAt' = raisedAt

\* A write or query that returned, and one that raised pyvisa's VisaIOError.
Sent(instr, cmd) == lastIo' = [instr |-> instr, cmd |-> cmd, ok |-> TRUE]
Faulted(instr, cmd) == lastIo' = [instr |-> instr, cmd |-> cmd, ok |-> FALSE]

\* Lines 241-244: rm.open_resource of the next instrument; it may fail.
OpenResource ==
    /\ UNCHANGED <<polls, envVars>>
    /\ pc = "open"
    /\ UNCHANGED <<cfg, closeCount, rmClosed, setupStep, sentCount, freqs, idx,
                   horizontal_scale, actual_horizontal_scale, attempt, status,
                   vpp_candidate, pkpkExc, vpp, vpp_measurements, db_measurements,
                   pkpkQueries, arms, readings, plotted, interrupted, lastIo>>
    /\ \/ /\ opened' = Append(opened, Instruments[Len(opened) + 1])
          /\ Goto(IF Len(opened) + 1 = Len(Instruments) THEN "setup" ELSE "open")
       \/ /\ Raise("VisaIOError")
          /\ opened' = opened

\* Lines 258-284: one write of the constant setup; it may fail.
SetupWrite ==
    /\ UNCHANGED <<polls, envVars>>
    /\ pc = "setup"
    /\ UNCHANGED <<cfg, opened, closeCount, rmClosed, freqs, idx,
                   horizontal_scale, actual_horizontal_scale, attempt, status,
                   vpp_candidate, pkpkExc, vpp, vpp_measurements, db_measurements,
                   pkpkQueries, arms, readings, plotted, interrupted>>
    /\ sentCount' = sentCount + 1
    /\ \/ /\ Sent(SetupCommands[setupStep][1], SetupCommands[setupStep][2])
          /\ setupStep' = setupStep + 1
          /\ Goto(IF setupStep = Len(SetupCommands) THEN "plan" ELSE "setup")
       \/ /\ Faulted(SetupCommands[setupStep][1], SetupCommands[setupStep][2])
          /\ Raise("VisaIOError")
          /\ setupStep' = setupStep

\* Lines 287-294: the plan, then the two empty series.
Plan ==
    /\ UNCHANGED <<polls, envVars>>
    /\ pc = "plan"
    /\ UNCHANGED <<cfg, opened, closeCount, rmClosed, setupStep, sentCount, idx,
                   horizontal_scale, actual_horizontal_scale, attempt, status,
                   vpp_candidate, pkpkExc, vpp, vpp_measurements, db_measurements,
                   pkpkQueries, arms, readings, plotted, interrupted, lastIo>>
    /\ IF PlanError(cfg) = "none"
       THEN /\ freqs' = Logspace(Log10Milli(cfg.start_freq), Log10Milli(cfg.end_freq),
                                 TotalPoints(cfg))
            /\ Goto("for_freq")
       ELSE /\ Raise(PlanError(cfg))
            /\ freqs' = freqs

\* Line 296 (and the progress print of line 420 before it): the next freq, or
\* the end of the loop.
ForFreq ==
    /\ UNCHANGED <<polls, envVars>>
    /\ pc = "for_freq"
    /\ UNCHANGED <<cfg, opened, closeCount, rmClosed, setupStep, sentCount,
                   freqs, horizontal_scale, actual_horizontal_scale, attempt, status,
                   vpp_candidate, pkpkExc, vpp, vpp_measurements, db_measurements,
                   plotted, interrupted, lastIo>>
    /\ IF idx < Len(freqs)
       THEN /\ idx' = idx + 1
            /\ pkpkQueries' = 0
            /\ arms' = 0
            /\ readings' = <<>>
            /\ Goto("set_freq")
       ELSE /\ Goto("close")
            /\ UNCHANGED <<idx, pkpkQueries, arms, readings>>

\* Line 298: wfg.write(f'FREQ {freq}').
SetFreq ==
    /\ UNCHANGED <<polls, envVars>>
    /\ pc = "set_freq"
    /\ UNCHANGED <<cfg, opened, closeCount, rmClosed, setupStep, sentCount, freqs, idx,
                   horizontal_scale, actual_horizontal_scale, attempt, status,
                   vpp_candidate, pkpkExc, vpp, vpp_measurements, db_measurements,
                   pkpkQueries, arms, readings, plotted, interrupted>>
    /\ \/ Sent("wfg", "FREQ") /\ Goto("set_tdiv")
       \/ Faulted("wfg", "FREQ") /\ Raise("VisaIOError")

\* Lines 339-350: the timebase for this frequency, written to the scope.
SetTdiv ==
    /\ UNCHANGED <<polls, envVars>>
    /\ pc = "set_tdiv"
    /\ horizontal_scale' = HorizontalScale(freqs[idx])
    /\ UNCHANGED <<cfg, opened, closeCount, rmClosed, setupStep, sentCount, freqs, idx,
                   actual_horizontal_scale, attempt, status,
                   vpp_candidate, pkpkExc, vpp, vpp_measurements, db_measurements,
                   pkpkQueries, arms, readings, plotted, interrupted>>
    /\ \/ Sent("osc", "TDIV") /\ Goto("query_tdiv")
       \/ Faulted("osc", "TDIV") /\ Raise("VisaIOError")

\* Lines 351-353: the timebase read back and converted with float().
QueryTdiv ==
    /\ UNCHANGED <<polls, envVars>>
    /\ pc = "query_tdiv"
    /\ UNCHANGED <<cfg, opened, closeCount, rmClosed, setupStep, sentCount, freqs, idx,
                   horizontal_scale, attempt, status,
                   vpp_candidate, pkpkExc, vpp, vpp_measurements, db_measurements,
                   pkpkQueries, arms, readings, plotted, interrupted>>
    /\ \/ \E reply \in TdivReplies(horizontal_scale) :
             /\ Sent("osc", "TDIV?")
             /\ IF FloatOk(reply)
                THEN /\ actual_horizontal_scale' = reply.val
                     /\ Goto("acqw")
                ELSE /\ Raise("ValueError")
                     /\ actual_horizontal_scale' = actual_horizontal_scale
       \/ /\ Faulted("osc", "TDIV?")
          /\ Raise("VisaIOError")
          /\ actual_horizontal_scale' = actual_horizontal_scale

\* Line 354: osc.write("ACQW SAMPLING").
WriteAcqw ==
    /\ UNCHANGED <<polls, envVars>>
    /\ pc = "acqw"
    /\ UNCHANGED <<cfg, opened, closeCount, rmClosed, setupStep, sentCount, freqs, idx,
                   horizontal_scale, actual_horizontal_scale, attempt, status,
                   vpp_candidate, pkpkExc, vpp, vpp_measurements, db_measurements,
                   pkpkQueries, arms, readings, plotted, interrupted>>
    /\ \/ Sent("osc", "ACQW SAMPLING") /\ Goto("arm")
       \/ Faulted("osc", "ACQW SAMPLING") /\ Raise("VisaIOError")

\* Lines 355-356: osc.write("ARM"), then the settle sleep.
WriteArm ==
    /\ UNCHANGED <<polls, envVars>>
    /\ pc = "arm"
    /\ UNCHANGED <<cfg, opened, closeCount, rmClosed, setupStep, sentCount, freqs, idx,
                   horizontal_scale, actual_horizontal_scale, attempt, status,
                   vpp_candidate, pkpkExc, vpp, vpp_measurements, db_measurements,
                   pkpkQueries, readings, plotted, interrupted>>
    /\ \/ Sent("osc", "ARM") /\ arms' = arms + 1 /\ Goto("clear")
       \/ Faulted("osc", "ARM") /\ arms' = arms /\ Raise("VisaIOError")

\* Lines 357 and 386-388: osc.write('PARAMETER_CLR'), then the retry loop starts.
WriteClear ==
    /\ UNCHANGED <<polls, envVars>>
    /\ pc = "clear"
    /\ UNCHANGED <<cfg, opened, closeCount, rmClosed, setupStep, sentCount, freqs, idx,
                   horizontal_scale, actual_horizontal_scale, status,
                   vpp_candidate, pkpkExc, vpp_measurements, db_measurements,
                   pkpkQueries, arms, readings, plotted, interrupted>>
    /\ \/ /\ Sent("osc", "PARAMETER_CLR")
          /\ attempt' = 0
          /\ vpp' = <<>>
          /\ Goto("poll")
       \/ /\ Faulted("osc", "PARAMETER_CLR")
          /\ Raise("VisaIOError")
          /\ UNCHANGED <<attempt, vpp>>

\* PollTrigger that leaves the poll loop on the first reply, whatever the
\* status.
PollTriggerNoWait ==
    /\ UNCHANGED envVars
    /\ pc = "poll"
    /\ UNCHANGED <<cfg, opened, closeCount, rmClosed, setupStep, sentCount, freqs, idx,
                   horizontal_scale, actual_horizontal_scale, attempt,
                   vpp_candidate, pkpkExc, vpp, vpp_measurements, db_measurements,
                   pkpkQueries, arms, readings, plotted, interrupted>>
    /\ \/ \E reply \in TrigReplies :
             /\ Sent("osc", "TRIG:STAT?")
             /\ status' = reply
             /\ polls' = 1 - polls
             /\ Goto("query_pkpk")
       \/ /\ Faulted("osc", "TRIG:STAT?")
          /\ Raise("VisaIOError")
          /\ status' = status
          /\ polls' = polls

\* PollTrigger with the query inside a try: a fault is swallowed and the loop
\* polls again.
PollTriggerSwallow ==
    /\ UNCHANGED envVars
    /\ pc = "poll"
    /\ UNCHANGED <<cfg, opened, closeCount, rmClosed, setupStep, sentCount, freqs, idx,
                   horizontal_scale, actual_horizontal_scale, attempt,
                   vpp_candidate, pkpkExc, vpp, vpp_measurements, db_measurements,
                   pkpkQueries, arms, readings, plotted, interrupted>>
    /\ \/ \E reply \in TrigReplies :
             /\ Sent("osc", "TRIG:STAT?")
             /\ status' = reply
             /\ polls' = 1 - polls
             /\ Goto(IF reply = "Stop" THEN "query_pkpk" ELSE "poll")
       \/ /\ Faulted("osc", "TRIG:STAT?")
          /\ Goto("poll")
          /\ status' = status
          /\ polls' = polls

\* Lines 389-393: one TRIG:STAT? query of the poll loop; any reply but "Stop"
\* sleeps and polls again.  The query is outside the try of line 394.
PollTrigger ==
    /\ UNCHANGED envVars
    /\ pc = "poll"
    /\ UNCHANGED <<cfg, opened, closeCount, rmClosed, setupStep, sentCount, freqs, idx,
                   horizontal_scale, actual_horizontal_scale, attempt,
                   vpp_candidate, pkpkExc, vpp, vpp_measurements, db_measurements,
                   pkpkQueries, arms, readings, plotted, interrupted>>
    /\ \/ \E reply \in TrigReplies :
             /\ Sent("osc", "TRIG:STAT?")
             /\ status' = reply
             /\ polls' = 1 - polls
             /\ Goto(IF reply = "Stop" THEN "query_pkpk" ELSE "poll")
       \/ /\ Faulted("osc", "TRIG:STAT?")
          /\ Raise("VisaIOError")
          /\ status' = status
          /\ polls' = polls

\* QueryPkpk with the query outside the try: only the parse is guarded.
QueryPkpkUnguarded ==
    /\ UNCHANGED <<polls, envVars>>
    /\ pc = "query_pkpk"
    /\ UNCHANGED <<cfg, opened, closeCount, rmClosed, setupStep, sentCount,
                   freqs, idx, horizontal_scale, actual_horizontal_scale, attempt,
                   status, vpp, vpp_measurements, db_measurements, arms, plotted,
                   interrupted>>
    /\ pkpkQueries' = pkpkQueries + 1
    /\ \/ \E reply \in PkpkReplies :
             /\ Sent("osc", "C1:PAVA? PKPK")
             /\ vpp_candidate' = PkpkCandidate(reply)
             /\ pkpkExc' = PkpkParseError(reply)
             /\ readings' = Append(readings, PkpkCandidate(reply))
             /\ Goto("validate")
       \/ /\ Faulted("osc", "C1:PAVA? PKPK")
          /\ Raise("VisaIOError")
          /\ UNCHANGED <<vpp_candidate, pkpkExc, readings>>

\* Lines 394-401: the peak-to-peak query and its parse, both inside the try;
\* any Exception leaves vpp_candidate = 0.0.
QueryPkpk ==
    /\ UNCHANGED <<polls, envVars>>
    /\ pc = "query_pkpk"
    /\ UNCHANGED <<cfg, opened, closeCount, rmClosed, setupStep, sentCount,
                   freqs, idx, horizontal_scale, actual_horizontal_scale, attempt,
                   status, vpp, vpp_measurements, db_measurements, arms, plotted,
                   interrupted>>
    /\ pkpkQueries' = pkpkQueries + 1
    /\ Goto("validate")
    /\ \/ \E reply \in PkpkReplies :
             /\ Sent("osc", "C1:PAVA? PKPK")
             /\ vpp_candidate' = PkpkCandidate(reply)
             /\ pkpkExc' = PkpkParseError(reply)
             /\ readings' = Append(readings, PkpkCandidate(reply))
       \/ /\ Faulted("osc", "C1:PAVA? PKPK")
          /\ vpp_candidate' = 0
          /\ pkpkExc' = "VisaIOError"
          /\ readings' = Append(readings, 0)

\* Validate without the break of line 405: an accepted reading is re-armed
\* and retried like a rejected one.
ValidateNoBreak ==
    /\ UNCHANGED <<polls, envVars>>
    /\ pc = "validate"
    /\ UNCHANGED <<cfg, opened, closeCount, rmClosed, setupStep, sentCount,
                   freqs, idx, horizontal_scale, actual_horizontal_scale, attempt,
                   status, vpp_candidate, pkpkExc, vpp_measurements, db_measurements,
                   pkpkQueries, arms, readings, plotted, interrupted, lastIo>>
    /\ vpp' = IF ValidVpp(vpp_candidate, cfg) THEN <<vpp_candidate>> ELSE vpp
    /\ Goto("rearm")

\* Lines 403-408: accept the candidate and leave the loop, or warn and sleep.
Validate ==
    /\ UNCHANGED <<polls, envVars>>
    /\ pc = "validate"
    /\ UNCHANGED <<cfg, opened, closeCount, rmClosed, setupStep, sentCount,
                   freqs, idx, horizontal_scale, actual_horizontal_scale, attempt,
                   status, vpp_candidate, pkpkExc, vpp_measurements, db_measurements,
                   pkpkQueries, arms, readings, plotted, interrupted, lastIo>>
    /\ IF ValidVpp(vpp_candidate, cfg)
       THEN vpp' = <<vpp_candidate>> /\ Goto("after_retry")
       ELSE vpp' = vpp /\ Goto("rearm")

\* Rearm with range(max_attempts - 1): one attempt too few.
RearmOffByOne ==
    /\ UNCHANGED <<polls, envVars>>
    /\ pc = "rearm"
    /\ UNCHANGED <<cfg, opened, closeCount, rmClosed, setupStep, sentCount, freqs, idx,
                   horizontal_scale, actual_horizontal_scale, status,
                   vpp_candidate, pkpkExc, vpp, vpp_measurements, db_measurements,
                   pkpkQueries, readings, plotted, interrupted>>
    /\ \/ /\ Sent("osc", "ARM")
          /\ arms' = arms + 1
          /\ IF attempt + 1 < max_attempts - 1
             THEN attempt' = attempt + 1 /\ Goto("poll")
             ELSE attempt' = attempt /\ Goto("after_retry")
       \/ /\ Faulted("osc", "ARM")
          /\ Raise("VisaIOError")
          /\ UNCHANGED <<arms, attempt>>

\* Lines 409-410 and 388: osc.write("ARM"), the sleep, then the next attempt
\* of range(max_attempts) or the end of the loop.
Rearm ==
    /\ UNCHANGED <<polls, envVars>>
    /\ pc = "rearm"
    /\ UNCHANGED <<cfg, opened, closeCount, rmClosed, setupStep, sentCount, freqs, idx,
                   horizontal_scale, actual_horizontal_scale, status,
                   vpp_candidate, pkpkExc, vpp, vpp_measurements, db_measurements,
                   pkpkQueries, readings, plotted, interrupted>>
    /\ \/ /\ Sent("osc", "ARM")
          /\ arms' = arms + 1
          /\ IF attempt + 1 < max_attempts
             THEN attempt' = attempt + 1 /\ Goto("poll")
             ELSE attempt' = attempt /\ Goto("after_retry")
       \/ /\ Faulted("osc", "ARM")
          /\ Raise("VisaIOError")
          /\ UNCHANGED <<arms, attempt>>

\* Lines 411-413: no attempt was accepted, the amplitude is set to 0.
AfterRetry ==
    /\ UNCHANGED <<polls, envVars>>
    /\ pc = "after_retry"
    /\ UNCHANGED <<cfg, opened, closeCount, rmClosed, setupStep, sentCount,
                   freqs, idx, horizontal_scale, actual_horizontal_scale, attempt,
                   status, vpp_candidate, pkpkExc, vpp_measurements, db_measurements,
                   pkpkQueries, arms, readings, plotted, interrupted, lastIo>>
    /\ vpp' = IF vpp = <<>> THEN <<0>> ELSE vpp
    /\ Goto("store")

\* Store that leaves the dB value of a zero amplitude out (no log10 of 0).
StoreSkipsZeroDb ==
    /\ UNCHANGED <<polls, envVars>>
    /\ pc = "store"
    /\ UNCHANGED <<cfg, opened, closeCount, rmClosed, setupStep, sentCount, freqs, idx,
                   horizontal_scale, actual_horizontal_scale, attempt, status,
                   vpp_candidate, pkpkExc, vpp, pkpkQueries, arms, readings, plotted,
                   interrupted, lastIo>>
    /\ vpp_measurements' = Append(vpp_measurements, vpp[1])
    /\ IF cfg.vpp_input = 0
       THEN /\ Raise("ZeroDivisionError")
            /\ db_measurements' = db_measurements
       ELSE /\ db_measurements' = IF vpp[1] = 0 THEN db_measurements
                                  ELSE Append(db_measurements, ToDb(vpp[1], cfg.vpp_input))
            /\ Goto("for_freq")

\* Lines 416-417: the amplitude is appended, then its dB value; the division
\* by abs(vpp_input) is a Python float division.
Store ==
    /\ UNCHANGED <<polls, envVars>>
    /\ pc = "store"
    /\ UNCHANGED <<cfg, opened, closeCount, rmClosed, setupStep, sentCount, freqs, idx,
                   horizontal_scale, actual_horizontal_scale, attempt, status,
                   vpp_candidate, pkpkExc, vpp, pkpkQueries, arms, readings, plotted,
                   interrupted, lastIo>>
    /\ vpp_measurements' = Append(vpp_measurements, vpp[1])
    /\ IF cfg.vpp_input = 0
       THEN /\ Raise("ZeroDivisionError")
            /\ db_measurements' = db_measurements
       ELSE /\ db_measurements' = Append(db_measurements, ToDb(vpp[1], cfg.vpp_input))
            /\ Goto("for_freq")

\* Lines 424-429: the instruments and the resource manager are closed.
Close ==
    /\ UNCHANGED <<polls, envVars>>
    /\ pc = "close"
    /\ closeCount' = [i \in DOMAIN closeCount |-> closeCount[i] + 1]
    /\ rmClosed' = TRUE
    /\ Goto("plot")
    /\ UNCHANGED <<cfg, opened, setupStep, sentCount, freqs, idx,
                   horizontal_scale, actual_horizontal_scale, attempt, status,
                   vpp_candidate, pkpkExc, vpp, vpp_measurements, db_measurements,
                   pkpkQueries, arms, readings, plotted, interrupted, lastIo>>

\* Lines 432-450: the dB series goes to the plot (line 434); the decade ticks
\* read freqs[0] (line 444).
Plot ==
    /\ UNCHANGED <<polls, envVars>>
    /\ pc = "plot"
    /\ plotted' = TRUE
    /\ UNCHANGED <<cfg, opened, closeCount, rmClosed, setupStep, sentCount, freqs, idx,
                   horizontal_scale, actual_horizontal_scale, attempt, status,
                   vpp_candidate, pkpkExc, vpp, vpp_measurements, db_measurements,
                   pkpkQueries, arms, readings, interrupted, lastIo>>
    /\ IF Len(freqs) = 0
       THEN Raise("IndexError")
       ELSE Goto("done")

\* The positions of the sweep loop, lines 296-420.
SweepPcs == {"for_freq", "set_freq", "set_tdiv", "query_tdiv", "acqw", "arm", "clear",
             "poll", "query_pkpk", "validate", "rearm", "after_retry", "store"}

\* A SIGINT during the sweep loop: Python raises KeyboardInterrupt in the main
\* thread; the loop never looks for a cancellation request, line 399 catches
\* Exception only, and there is no finally.
KeyboardInterrupt ==
    /\ UNCHANGED <<polls, envVars>>
    /\ pc \in SweepPcs
    /\ interrupted' = TRUE
    /\ Raise("KeyboardInterrupt")
    /\ UNCHANGED <<cfg, opened, closeCount, rmClosed, setupStep, sentCount, freqs, idx,
                   horizontal_scale, actual_horizontal_scale, attempt, status,
                   vpp_candidate, pkpkExc, vpp, vpp_measurements, db_measurements,
                   pkpkQueries, arms, readings, plotted, lastIo>>

Next ==
    \/ OpenResource
    \/ SetupWrite
    \/ Plan
    \/ ForFreq
    \/ SetFreq
    \/ SetTdiv
    \/ QueryTdiv
    \/ WriteAcqw
    \/ WriteArm
    \/ WriteClear
    \/ PollTrigger
    \/ QueryPkpk
    \/ Validate
    \/ Rearm
    \/ AfterRetry
    \/ Store
    \/ Close
    \/ Plot
    \/ KeyboardInterrupt

Spec == Init /\ [][Next]_vars

\* The runs of the sweep in which no channel call raises and no signal
\* arrives: every step of bode_plot other than a VisaIOError or an interrupt.
NoFaultStep == lastIo'.ok /\ error' \notin {"VisaIOError", "KeyboardInterrupt"}

FairNext ==
    \/ OpenResource /\ NoFaultStep
    \/ SetupWrite /\ NoFaultStep
    \/ Plan /\ NoFaultStep
    \/ ForFreq /\ NoFaultStep
    \/ SetFreq /\ NoFaultStep
    \/ SetTdiv /\ NoFaultStep
    \/ QueryTdiv /\ NoFaultStep
    \/ WriteAcqw /\ NoFaultStep
    \/ WriteArm /\ NoFaultStep
    \/ WriteClear /\ NoFaultStep
    \/ PollTrigger /\ NoFaultStep
    \/ QueryPkpk /\ NoFaultStep
    \/ Validate /\ NoFaultStep
    \/ Rearm /\ NoFaultStep
    \/ AfterRetry /\ NoFaultStep
    \/ Store /\ NoFaultStep
    \/ Close /\ NoFaultStep
    \/ Plot /\ NoFaultStep

\* The device reports the stopped state to a trigger-status poll.
PollStopped == PollTrigger /\ NoFaultStep /\ status' = "Stop"

\* The interpreter runs the next statement whenever there is one (lines
\* 234-450 are straight-line code and loops, nothing waits on another
\* thread), and a device polled again and again (lines 388-393) eventually
\* answers "Stop".
FairSpec == Init /\ [][FairNext]_vars /\ WF_vars(FairNext) /\ SF_vars(PollStopped)

-----------------------------------------------------------------------------
(* adsr_envelope of adsr_sine.py *)

\* Milliseconds in a second, thousandths in a unit level.
Milli == 1000

\* Stage durations in ms (a negative one counts as 0), sustain levels in
\* thousandths (the dataclass checks no range) and sample rates.
DurationChoices == {-500, 0, 400, 600, 1500}
LevelChoices == {-500, 500, 1500}
SrChoices == {0, 1, 2, 4}

Max0(x) == IF x > 0 THEN x ELSE 0

\* Lines 49-50.
total_duration(a) == Max0(a.attack) + Max0(a.decay) + Max0(a.sustain) + Max0(a.release)

\* Python's round() of num / den for num >= 0: to the nearest integer, a tie
\* to the even one.
round(num, den) ==
    LET q == num \div den
        r == num % den
    IN  IF 2 * r < den THEN q
        ELSE IF 2 * r > den THEN q + 1
        ELSE IF q % 2 = 0 THEN q ELSE q + 1

\* Lines 71-74: int(round(max(0.0, seconds) * sr)).
SampleCount(ms, rate) == round(Max0(ms) * rate, Milli)

\* Lines 53-58: n samples from start towards stop, the endpoint left out
\* (levels are cut to thousandths).
segment(start, stop, n) ==
    IF n <= 0 THEN <<>>
    ELSE [k \in 1..n |-> start + ((k - 1) * (stop - start)) \div n]

\* Line 79: np.full.
full(n, level) == [k \in 1..n |-> level]

\* Line 86: np.clip(env, 0.0, 1.0).
clip(x) == IF x < 0 THEN 0 ELSE IF x > Milli THEN Milli ELSE x

\* A call adsr_envelope(adsr, sr); bode_plot is not running.
EnvInit ==
    /\ adsr \in [attack : DurationChoices, decay : DurationChoices,
                 sustain_level : LevelChoices, sustain : DurationChoices,
                 release : DurationChoices]
    /\ sr \in SrChoices
    /\ counts = <<>>
    /\ env = <<>>
    /\ t = <<>>
    /\ envPc = "check"
    /\ pc = "idle"
    /\ error = "none"
    /\ cfg = [start_freq |-> 0, end_freq |-> 0, points_per_decade |-> 0, vpp_input |-> 0]
    /\ polls = 0
    /\ opened = <<>>
    /\ closeCount = [i \in {"pwr", "wfg", "osc"} |-> 0]
    /\ rmClosed = FALSE
    /\ setupStep = 1
    /\ sentCount = 0
    /\ freqs = <<>>
    /\ idx = 0
    /\ horizontal_scale = 0
    /\ actual_horizontal_scale = 0
    /\ attempt = 0
    /\ status = "none"
    /\ vpp_candidate = 0
    /\ pkpkExc = "none"
    /\ vpp = <<>>
    /\ vpp_measurements = <<>>
    /\ db_measurements = <<>>
    /\ pkpkQueries = 0
    /\ arms = 0
    /\ readings = <<>>
    /\ plotted = FALSE
    /\ interrupted = FALSE
    /\ raisedAt = "none"
    /\ lastIo = [instr |-> "none", cmd |-> "none", ok |-> TRUE]

\* The variables of bode_plot; adsr_envelope never touches them.
sweepVars == <<pc, error, cfg, opened, closeCount, rmClosed, setupStep, sentCount, freqs,
               idx, horizontal_scale, actual_horizontal_scale, attempt, status,
               vpp_candidate, pkpkExc, vpp, vpp_measurements, db_measurements,
               pkpkQueries, arms, readings, plotted, interrupted, raisedAt, lastIo,
               polls>>

\* Lines 69-70: a sample rate that is not positive raises ValueError.
CheckRate ==
    /\ envPc = "check"
    /\ envPc' = IF sr <= 0 THEN "raised" ELSE "count"
    /\ UNCHANGED <<sweepVars, adsr, sr, counts, env, t>>

\* Lines 71-74: the sample count of each stage.
CountSamples ==
    /\ envPc = "count"
    /\ counts' = [a_n |-> SampleCount(adsr.attack, sr),
                  d_n |-> SampleCount(adsr.decay, sr),
                  s_n |-> SampleCount(adsr.sustain, sr),
                  r_n |-> SampleCount(adsr.release, sr)]
    /\ envPc' = "build"
    /\ UNCHANGED <<sweepVars, adsr, sr, env, t>>

\* Lines 77-82: the four segments, concatenated.
BuildSegments ==
    /\ envPc = "build"
    /\ env' = segment(0, Milli, counts.a_n)
              \o segment(Milli, adsr.sustain_level, counts.d_n)
              \o full(counts.s_n, adsr.sustain_level)
              \o segment(adsr.sustain_level, 0, counts.r_n)
    /\ envPc' = "time"
    /\ UNCHANGED <<sweepVars, adsr, sr, counts, t>>

\* Line 84: t = np.arange(env.size) / sr.
TimeVector ==
    /\ envPc = "time"
    /\ t' = [i \in 1..Len(env) |-> ((i - 1) * Milli) \div sr]
    /\ envPc' = "clip"
    /\ UNCHANGED <<sweepVars, adsr, sr, counts, env>>

\* Lines 86-87: the envelope is clipped in place and returned with t.
ClipAndReturn ==
    /\ envPc = "clip"
    /\ env' = [i \in 1..Len(env) |-> clip(env[i])]
    /\ envPc' = "returned"
    /\ UNCHANGED <<sweepVars, adsr, sr, counts, t>>

EnvNext ==
    \/ CheckRate
    \/ CountSamples
    \/ BuildSegments
    \/ TimeVector
    \/ ClipAndReturn

EnvSpec == EnvInit /\ [][EnvNext]_vars

-----------------------------------------------------------------------------
(* Vocabulary of the claims *)

\* The acceptance predicate as the specification words it:
\* 0 < amplitude < validityCeilingMultiple * referenceAmplitude.
Accepted(a) == 0 < a /\ a < error_check_max_gain * cfg.vpp_input

\* The n-th reading of this point is its first accepted one.
FirstAcceptedAt(n) ==
    /\ Len(readings) >= n
    /\ Accepted(readings[n])
    /\ \A j \in 1..(n - 1) : ~Accepted(readings[j])

NoneAccepted == \A j \in 1..Len(readings) : ~Accepted(readings[j])

\* The entry of the current point has been appended (readings is reset with
\* the move to the next point).
PointStored == idx >= 1 /\ Len(vpp_measurements) = idx

PollFaulted == lastIo = [instr |-> "osc", cmd |-> "TRIG:STAT?", ok |-> FALSE]
PkpkFaulted == lastIo = [instr |-> "osc", cmd |-> "C1:PAVA? PKPK", ok |-> FALSE]

\* A configuration error as the specification lists them.
ConfigError(c) ==
    \/ c.start_freq <= 0
    \/ c.end_freq <= c.start_freq
    \/ c.points_per_decade <= 0
    \/ c.vpp_input = 0

AllClosedOnce == \A i \in {"pwr", "wfg", "osc"} : closeCount[i] = 1

-----------------------------------------------------------------------------
(* Claims *)

\* C1: when the first k readings of a point are invalid and reading k+1 is
\* valid (0 <= k < max_attempts), exactly k+1 peak-to-peak queries are issued
\* for the point (none after the acceptance) and that reading is the point's
\* amplitude.
C1_FirstValidReturned ==
    \A k \in 0..(max_attempts - 1) :
        FirstAcceptedAt(k + 1) =>
            /\ pkpkQueries = k + 1
            /\ Len(readings) = k + 1
            /\ pc \in {"after_retry", "store"} => vpp = <<readings[k + 1]>>
            /\ PointStored => vpp_measurements[idx] = readings[k + 1]

\* C1 witness: four invalid readings, the fifth accepted and stored.
C1_Witness ==
    /\ FirstAcceptedAt(max_attempts)
    /\ PointStored
    /\ pc = "for_freq"
    /\ vpp_measurements[idx] = 100

\* C2: when no reading of a point is valid, the acquisition ends after exactly
\* max_attempts peak-to-peak queries with amplitude 0, and no exception is
\* raised by the query, the validation or the fallback.
C2_ExhaustedIsDegraded ==
    /\ (pc = "store" /\ NoneAccepted) =>
           /\ pkpkQueries = max_attempts
           /\ Len(readings) = max_attempts
           /\ vpp = <<0>>
           /\ error = "none"
    /\ (pc = "raised" /\ raisedAt \in {"query_pkpk", "validate", "after_retry"}) =>
           error = "KeyboardInterrupt"

\* C2 witness: the retries of the second point are exhausted.
C2_Witness ==
    /\ pc = "store"
    /\ NoneAccepted
    /\ idx = 2
    /\ 10000 \in {readings[j] : j \in 1..Len(readings)}

C4_CompletesWithNEntries ==
    (/\ pc \in {"done", "raised"}
     /\ Len(freqs) >= 1
     /\ cfg.vpp_input > 0
     /\ error # "VisaIOError"
     /\ ~interrupted)
    => /\ pc = "done"
       /\ Len(vpp_measurements) = Len(freqs)
       /\ Len(db_measurements) = Len(freqs)
       /\ \A i \in 1..(Len(freqs) - 1) : freqs[i] < freqs[i + 1]

\* C5: every instrument opened for a sweep is closed exactly once when the
\* sweep ends: on completion, and when a communication error aborts it during
\* the setup or at a frequency point.
C5_ReleasedOnEveryExit ==
    (/\ ~ConfigError(cfg)
     /\ \/ pc = "done"
        \/ /\ pc = "raised"
           /\ error = "VisaIOError"
           /\ raisedAt \in {"setup"} \cup SweepPcs)
    => \A n \in 1..Len(opened) : closeCount[opened[n]] = 1

\* C6: a communication error at the j-th point ends the sweep aborted, and
\* the series of the j-1 completed points is handed on with the error.
C6_PartialResultReturned ==
    (/\ ~ConfigError(cfg)
     /\ pc = "raised"
     /\ error = "VisaIOError"
     /\ raisedAt \in SweepPcs)
    =>
        /\ Len(vpp_measurements) = idx - 1
        /\ Len(db_measurements) = idx - 1
        /\ plotted

\* C7: every stored amplitude is 0 or strictly between 0 and the ceiling; the
\* entry of a point is 0 exactly when none of its max_attempts readings was
\* acceptable, and otherwise it is the first acceptable reading of the point.
C7_SeriesWithinBounds ==
    /\ \A i \in 1..Len(vpp_measurements) :
           vpp_measurements[i] = 0 \/ Accepted(vpp_measurements[i])
    /\ PointStored =>
           /\ (vpp_measurements[idx] = 0) <=> NoneAccepted
           /\ vpp_measurements[idx] = 0 => Len(readings) = max_attempts
           /\ \A n \in 1..Len(readings) :
                  FirstAcceptedAt(n) => vpp_measurements[idx] = readings[n]

\* C7 witness: a reading at the ceiling and a zero reading were rejected, the
\* next reading was stored.
C7_Witness ==
    /\ PointStored
    /\ Len(readings) = 3
    /\ readings[1] = error_check_max_gain * cfg.vpp_input
    /\ readings[2] = 0
    /\ vpp_measurements[idx] = readings[3]
    /\ vpp_measurements[idx] # 0

\* C8: with a configuration error no instrument is opened and nothing is
\* sent to any instrument.
C8_RejectedBeforeInstruments ==
    ConfigError(cfg) => (opened = <<>> /\ sentCount = 0 /\ lastIo.cmd = "none")

\* C9: a failure to obtain or to parse the peak-to-peak reply is an invalid
\* reading of 0: it uses up one attempt, takes the reject path (re-arm, then
\* the next attempt or the end of the retries) and raises nothing.
C9_ReadFailureIsInvalidReading ==
    [][/\ (pc = "query_pkpk" /\ pc' # "raised") =>
              /\ pkpkQueries' = pkpkQueries + 1
              /\ pc' = "validate"
              /\ error' = "none"
              /\ pkpkExc' # "none" =>
                     (vpp_candidate' = 0 /\ readings' = Append(readings, 0))
       /\ (pc = "query_pkpk" /\ pc' = "raised") => error' = "KeyboardInterrupt"
       /\ (pc = "validate" /\ pkpkExc # "none" /\ pc' # "raised") =>
              (pc' = "rearm" /\ vpp' = <<>>)
       /\ (pc = "validate" /\ pc' = "raised") => error' = "KeyboardInterrupt"
       /\ (pc = "rearm" /\ pkpkExc # "none" /\ pc' # "raised") =>
              /\ arms' = arms + 1
              /\ lastIo'.cmd = "ARM"
              /\ IF pkpkQueries < max_attempts
                 THEN pc' = "poll" /\ attempt' = attempt + 1
                 ELSE pc' = "after_retry"
      ]_vars

\* C9 witness: after a faulted query and an unparsable reply the third
\* attempt is polling.
C9_Witness ==
    /\ pc = "poll"
    /\ attempt = 2
    /\ pkpkQueries = 2
    /\ pkpkExc = "ValueError"
    /\ readings = <<0, 0>>
    /\ arms = 3

\* C10: once a cancellation is signalled while a point of the sweep is
\* measured, every instrument is closed exactly once and the sweep returns,
\* without an error, a series of fewer than N entries.
C10_CancelReleasesAndReturns ==
    (interrupted /\ ~ConfigError(cfg) /\ idx >= 1 /\ raisedAt # "for_freq") =>
        /\ AllClosedOnce
        /\ error = "none"
        /\ Len(vpp_measurements) < Len(freqs)

\* round() of a non-negative number of thousandths: to the nearest integer,
\* a tie to the even one.
RoundMilli(a) ==
    LET q == a \div LogScale
        r == a % LogScale
    IN  IF 2 * r < LogScale THEN q
        ELSE IF 2 * r > LogScale THEN q + 1
        ELSE IF q % 2 = 0 THEN q ELSE q + 1

\* (log10(end) - log10(start)) * density, in thousandths.
DecadesTimesDensity(c) ==
    (Log10Milli(c.end_freq) - Log10Milli(c.start_freq)) * c.points_per_decade

\* C11: for a valid (start, end, density) whose rounded count is at least 1,
\* the plan has count = round((log10(end) - log10(start)) * density) >= 1
\* frequencies, is strictly increasing, starts at start and ends at or below
\* end.
C11_PlanCountIsRounded ==
    (/\ pc \notin {"open", "setup", "plan"}
     /\ ~ConfigError(cfg)
     /\ raisedAt \notin {"open", "setup"}
     /\ RoundMilli(DecadesTimesDensity(cfg)) >= 1)
    => /\ Len(freqs) = RoundMilli(DecadesTimesDensity(cfg))
       /\ Len(freqs) >= 1
       /\ freqs[1] = Log10Milli(cfg.start_freq)
       /\ freqs[Len(freqs)] <= Log10Milli(cfg.end_freq)
       /\ \A i \in 1..(Len(freqs) - 1) : freqs[i] < freqs[i + 1]

TdivReturned == lastIo = [instr |-> "osc", cmd |-> "TDIV?", ok |-> TRUE]

\* C12: the content of the timebase read-back decides nothing.  A sweep whose
\* TDIV? reply is the requested number goes on to the acquisition-mode write
\* and the arm; a sweep that differs from it only in the content of that
\* reply has to send the same commands and end the same way, so after any
\* returned TDIV? query the point goes on and no exception has been raised.
C12_ReadbackDecidesNothing ==
    (TdivReturned /\ ~interrupted) => (pc = "acqw" /\ error = "none")

\* A command or query goes to the scope or the generator in this step of the
\* sweep loop (a poll repeated with the same outcome leaves lastIo as it is).
SweepIo(cmd) == pc \in SweepPcs /\ lastIo' # lastIo /\ lastIo'.cmd = cmd

\* C13: within a point the scope commands follow the order set timebase, read
\* it back, arm (and settle), clear the measurements, then the retry loop; a
\* peak-to-peak query is sent only right after a trigger-status poll that
\* returned "Stop", so with no arm between that poll and the query and with
\* the poll later than the latest arm.
C13_CommandOrder ==
    [][/\ SweepIo("TDIV") => (lastIo.cmd = "FREQ" /\ lastIo.ok)
       /\ SweepIo("TDIV?") => (lastIo.cmd = "TDIV" /\ lastIo.ok)
       /\ SweepIo("ACQW SAMPLING") => (lastIo.cmd = "TDIV?" /\ lastIo.ok)
       /\ SweepIo("ARM") =>
              \/ lastIo.cmd = "ACQW SAMPLING" /\ lastIo.ok /\ arms = 0
              \/ lastIo.cmd = "C1:PAVA? PKPK" /\ arms >= 1
       /\ SweepIo("PARAMETER_CLR") =>
              (lastIo.cmd = "ARM" /\ lastIo.ok /\ arms = 1 /\ pkpkQueries = 0)
       /\ SweepIo("TRIG:STAT?") =>
              /\ lastIo.cmd \in {"PARAMETER_CLR", "ARM", "TRIG:STAT?"}
              /\ lastIo.ok
              /\ arms = pkpkQueries + 1
       /\ SweepIo("C1:PAVA? PKPK") =>
              /\ lastIo = [instr |-> "osc", cmd |-> "TRIG:STAT?", ok |-> TRUE]
              /\ status = "Stop"
              /\ arms = pkpkQueries + 1
      ]_vars

\* C13 witness: the second attempt's query was sent, after a re-arm and a
\* poll that returned "Stop".
C13_Witness ==
    /\ pc = "validate"
    /\ attempt = 1
    /\ arms = 2
    /\ pkpkQueries = 2
    /\ status = "Stop"
    /\ lastIo.cmd = "C1:PAVA? PKPK"

\* C14: when the acquisition of a point has ended, as many ARM commands were
\* sent for the point as measurement attempts were made, so no armed capture
\* is pending when the sweep moves on (a re-arm is sent only to retry).
C14_ArmsEqualAttempts ==
    (/\ ~ConfigError(cfg)
     /\ pc = "store" \/ (pc = "for_freq" /\ idx >= 1))
    => arms = pkpkQueries

\* C16: the sweep is sequential and the two series grow together: at the top
\* of the loop both hold idx entries, and from the write of the frequency of
\* planned point i = idx - 1 until its amplitude and dB value are appended
\* both hold exactly i entries.
C16_SeriesInLockStep ==
    /\ pc = "for_freq" =>
           (Len(vpp_measurements) = idx /\ Len(db_measurements) = idx)
    /\ pc \in SweepPcs \ {"for_freq"} =>
           /\ idx \in 1..Len(freqs)
           /\ Len(vpp_measurements) = idx - 1
           /\ Len(db_measurements) = idx - 1

\* C16 witness: the frequency of the third point has just been written.
C16_Witness ==
    /\ pc = "set_tdiv"
    /\ lastIo = [instr |-> "wfg", cmd |-> "FREQ", ok |-> TRUE]
    /\ idx = 3
    /\ Len(vpp_measurements) = 2
    /\ Len(db_measurements) = 2
    /\ vpp_measurements[1] = 0

\* A sweep about to start with a valid configuration that plans N >= 1 points.
ValidSweepStarts == pc = "open" /\ ~ConfigError(cfg) /\ TotalPoints(cfg) >= 1

\* C15: when the device eventually reports the stopped state after every arm
\* and no channel call faults (FairSpec), every sweep of N >= 1 points
\* terminates: it reaches the end of bode_plot with every channel closed.
C15_FairSweepTerminates ==
    ValidSweepStarts ~> (pc = "done" /\ AllClosedOnce)

\* The sample count the claim states: the four rounded stage lengths.
StatedSamples ==
    round(Max0(adsr.attack) * sr, Milli) + round(Max0(adsr.decay) * sr, Milli)
    + round(Max0(adsr.sustain) * sr, Milli) + round(Max0(adsr.release) * sr, Milli)

\* C17: for a positive sample rate adsr_envelope returns N = StatedSamples
\* samples with levels in [0, 1] and times t[i] = i / sr, increasing, the last
\* of them strictly below the ADSR's total_duration().
C17_EnvelopeShape ==
    envPc = "returned" =>
        /\ Len(env) = StatedSamples
        /\ Len(t) = Len(env)
        /\ \A i \in 1..Len(env) : 0 <= env[i] /\ env[i] <= Milli
        /\ \A i \in 1..Len(t) : t[i] * sr = (i - 1) * Milli
        /\ \A i \in 1..(Len(t) - 1) : t[i] < t[i + 1]
        /\ Len(t) >= 1 => t[Len(t)] < total_duration(adsr)

====
